---- MODULE Spec2Model ----
(***************************************************************************)
(* Model of the distributed browser worker of LMArena Bridge              *)
(* (src/distributed_clients/browser_client.py): registration, the         *)
(* adaptive polling loop, request processing with streamed chunk reports, *)
(* the load counter and the metrics counters.                             *)
(*                                                                         *)
(* The worker is an asyncio program.  A coroutine runs without            *)
(* interruption between two awaits, so pc names the position of the task  *)
(* that runs start(): the await points are the places where another task  *)
(* (stop(), started by the signal handler) or a cancellation can act.     *)
(* The positions that are not await points are steps of one uninterrupted *)
(* run of the coroutine.                                                  *)
(*                                                                         *)
(* Intervals are Python floats in the source.  They are modelled as exact *)
(* rationals <<numerator, denominator>> in lowest terms, 1.5 as 3/2 and   *)
(* 0.8 as 4/5.                                                            *)
(***************************************************************************)
EXTENDS Integers, Sequences, FiniteSets, TLC

\* ------------------------------------------------------------------ bounds

\* Number of iterations of the polling loop that are explored.
MaxIterations == 2
\* Largest value of --max-concurrent that is explored (1..MaxConcurrent).
MaxConcurrent == 2
\* Request identifiers the dispatcher hands out are 1..MaxRequestId.
MaxRequestId == 2
\* Measured latencies (time.time() differences, in ms) are 1..MaxLatency.
MaxLatency == 1
\* Loads given to update_poll_interval in the function-level specification.
MaxLoadInput == 3
\* Counter values (total_requests) given to get_success_rate and
\* get_average_response_time in the function-level specification.
MaxCount == 4
\* Cumulative latencies (total_response_time) given to
\* get_average_response_time in the function-level specification.
MaxTime == 6

\* ------------------------------------------------------- program constants

\* self.base_poll_interval = 5
base_poll_interval == 5
\* min(..., 30): the upper cap of the poll interval, in seconds
MaxPollInterval == 30
\* max(..., 1): the lower cap applied by update_poll_interval, in seconds
MinPollInterval == 1
\* chunks = ["Hello", " there", "! This", " is", " a", " simulated", " response", "."]
NumChunks == 8

VARIABLES
    max_concurrent,         \* self.max_concurrent
    running,                \* self.running
    session_id,             \* self.session_id: "None", "" or a token
    session,                \* self.session: "None", "open" or "closed"
    current_load,           \* self.current_load
    total_requests,         \* self.total_requests
    successful_requests,    \* self.successful_requests
    total_response_time,    \* self.total_response_time
    current_poll_interval,  \* self.current_poll_interval, a rational
    pc,                     \* position of the task running start()
    request_info,           \* the request being processed, or NoRequest
    chunk_index,            \* i of "for i, chunk in enumerate(chunks)"
    iterations,             \* loop iterations begun
    polls,                  \* poll payloads posted to poll.php, in order
    reports,                \* payloads handed to send_response, in order
    invocations,            \* one record per call of process_request
    last_poll,              \* outcome of the most recent poll, and the
                            \* poll_interval of its reply
    local_interval,         \* value update_poll_interval computed last
    last_report_status,     \* outcome of the report post that has just
                            \* ended ("none" once send_response's caller
                            \* has gone on)
    sleep_arg,              \* argument of the most recent inter-poll sleep
    stop_requested,         \* stop() has been called
    registration,           \* registration posts sent, how the last ended and
                            \* the session id the dispatcher issued
    stats_task              \* position of main's stats_task: "created",
                            \* "sleeping" (in asyncio.sleep) or "done"

vars == <<max_concurrent, running, session_id, session, current_load,
          total_requests, successful_requests, total_response_time,
          current_poll_interval, pc, request_info, chunk_index, iterations,
          polls, reports, invocations, last_poll, local_interval,
          last_report_status, sleep_arg, stop_requested, registration,
          stats_task>>

\* ------------------------------------------------------- rational numbers

RECURSIVE GCD(_, _)
GCD(a, b) == IF b = 0 THEN a ELSE GCD(b, a % b)

Rat(n, d) == LET g == GCD(n, d) IN IF g = 0 THEN <<0, 1>> ELSE <<n \div g, d \div g>>
RMul(x, y) == Rat(x[1] * y[1], x[2] * y[2])
RLeq(x, y) == x[1] * y[2] <= y[1] * x[2]
RLess(x, y) == x[1] * y[2] < y[1] * x[2]
\* Python's min(a, b) and max(a, b) return a unless b is strictly better
RMin(x, y) == IF RLess(y, x) THEN y ELSE x
RMax(x, y) == IF RLess(x, y) THEN y ELSE x
RInt(n) == <<n, 1>>

\* ---------------------------------------------------------- value domains

NoRequest == [request_id |-> 0, well_formed |-> FALSE, stream |-> FALSE]

\* A request the dispatcher assigns: well_formed says that the 'model' and
\* 'messages' keys are present; stream is request_info.get('stream', True).
Requests == [request_id : 1..MaxRequestId, well_formed : BOOLEAN, stream : BOOLEAN]

\* faulty variant of FalsySessionIds: the guards read
\* "if self.session_id is None"
FalsySessionIds_OnlyNone == {"None"}

\* session_id values for which "not self.session_id" is true
FalsySessionIds == {"None", ""}

\* values of data['session_id'] in a 200 registration reply
SessionTokens == {"s1", ""}

\* poll_interval values in an Idle reply; NoRecommendation is a reply without
\* the field (data.get falls back to base_poll_interval)
NoRecommendation == -1
RecommendedIntervals == {NoRecommendation, 0, 1, 10, MaxPollInterval + 15}

\* outcomes of an HTTP post that was issued on an open session
FailedStatuses == {"exception", "non200"}
ReportStatuses == {"ok"} \cup FailedStatuses

\* positions of the task at which the event loop can run something else
AwaitPcs == {"registering", "polling", "chunk_post", "chunk_sleep",
             "nonstream_sleep", "complete_post", "error_post", "sleep"}
\* await points inside the try block of process_request
TryPcs == {"chunk_post", "chunk_sleep", "nonstream_sleep", "complete_post",
           "error_post"}
\* positions at which the task has ended
EndPcs == {"reg_failed", "exited", "cancelled"}

\* -------------------------------------------------------- pure functions

\* faulty variant of get_success_rate: 0 is returned before any request
get_success_rate_ZeroWhenEmpty(successful, total) ==
    IF total = 0 THEN RInt(0) ELSE RMul(Rat(successful, total), RInt(100))

\* get_success_rate
get_success_rate(successful, total) ==
    IF total = 0 THEN RInt(100) ELSE RMul(Rat(successful, total), RInt(100))

\* faulty variant of get_average_response_time: the sum is divided by the
\* number of all requests, 0 being returned when there is none
get_average_response_time_OverTotal(time_total, successful) ==
    IF total_requests = 0 THEN RInt(0) ELSE Rat(time_total, total_requests)

\* get_average_response_time
get_average_response_time(time_total, successful) ==
    IF successful = 0 THEN RInt(0) ELSE Rat(time_total, successful)

\* faulty variant of update_poll_interval: the saturation test is > instead of >=
update_poll_interval_StrictCap(interval, load, maxc) ==
    IF load > maxc
    THEN RMin(RMul(interval, <<3, 2>>), RInt(MaxPollInterval))
    ELSE IF load = 0
         THEN RMax(RMul(interval, <<4, 5>>), RInt(MinPollInterval))
         ELSE RInt(base_poll_interval)

\* update_poll_interval: the new value of current_poll_interval
update_poll_interval(interval, load, maxc) ==
    IF load >= maxc
    THEN RMin(RMul(interval, <<3, 2>>), RInt(MaxPollInterval))
    ELSE IF load = 0
         THEN RMax(RMul(interval, <<4, 5>>), RInt(MinPollInterval))
         ELSE RInt(base_poll_interval)

\* faulty variant of recommended_poll_interval: a reply without poll_interval
\* is taken as a recommendation of the longest interval
recommended_poll_interval_NoDefault(r) ==
    RMin(RInt(IF r = NoRecommendation THEN MaxPollInterval ELSE r),
         RInt(MaxPollInterval))

\* faulty variant of recommended_poll_interval: the cap of 30 s is missing
recommended_poll_interval_NoCap(r) ==
    RInt(IF r = NoRecommendation THEN base_poll_interval ELSE r)

\* min(data.get('poll_interval', self.base_poll_interval), 30)
recommended_poll_interval(r) ==
    RMin(RInt(IF r = NoRecommendation THEN base_poll_interval ELSE r),
         RInt(MaxPollInterval))

\* faulty variant of ChunkSequence: enumerate(chunks, 1)
ChunkSequence_FromOne(i) == i + 1

\* sequence number given to the i-th chunk by enumerate(chunks)
ChunkSequence(i) == i

\* faulty variant of ReleaseLoad: the finally clause does not give the unit back
ReleaseLoad_NoRelease(load) == load

\* self.current_load -= 1 in the finally block
ReleaseLoad(load) == load - 1

PollOutcome(outcome, r) == [outcome |-> outcome, poll_interval |-> r]

\* ------------------------------------------------------------------ Init

Init ==
    /\ max_concurrent \in 1..MaxConcurrent
    /\ running = FALSE
    /\ session_id = "None"
    /\ session = "None"
    /\ current_load = 0
    /\ total_requests = 0
    /\ successful_requests = 0
    /\ total_response_time = 0
    /\ current_poll_interval = RInt(base_poll_interval)
    /\ pc = "created"
    /\ request_info = NoRequest
    /\ chunk_index = 0
    /\ iterations = 0
    /\ polls = <<>>
    /\ reports = <<>>
    /\ invocations = <<>>
    /\ last_poll = PollOutcome("none", NoRecommendation)
    /\ local_interval = RInt(base_poll_interval)
    /\ last_report_status = "none"
    /\ sleep_arg = RInt(0)
    /\ stop_requested = FALSE
    /\ registration = [posts |-> 0, outcome |-> "none", issued |-> "None"]
    /\ stats_task = "created"

\* --------------------------------------------------------------- helpers

metrics == <<total_requests, successful_requests, total_response_time>>
loop_ghost == <<iterations, polls, last_poll, local_interval>>

\* await asyncio.sleep(self.current_poll_interval) of polling_loop begins
GoSleep(interval) ==
    /\ pc' = "sleep"
    /\ sleep_arg' = interval

\* headers of send_response; posted says whether the post was made on an
\* open session, that is, whether anything was sent
ReportHeaders(posted) == [session_header |-> session_id, posted |-> posted]

\* send_response(data): the session guard, then the post.  A post on a closed
\* session raises at once (caught by "except Exception"), so the coroutine
\* goes on at contPc without suspending; otherwise it waits at awaitPc.
SendResponse(data, awaitPc, contPc) ==
    IF session_id \in FalsySessionIds
    THEN /\ pc' = contPc
         /\ UNCHANGED <<reports, last_report_status>>
    ELSE IF session = "open"
         THEN /\ reports' = Append(reports, data @@ ReportHeaders(TRUE))
              /\ pc' = awaitPc
              /\ UNCHANGED last_report_status
         ELSE /\ reports' = Append(reports, data @@ ReportHeaders(FALSE))
              /\ last_report_status' = "exception"
              /\ pc' = contPc

ReportData(type, seq, errtype) ==
    [inv |-> Len(invocations), request_id |-> request_info.request_id,
     type |-> type, sequence |-> seq, error_type |-> errtype]

\* the entry of the running invocation, changed by f
SetInvocation(field, value) ==
    invocations' = [invocations EXCEPT ![Len(invocations)][field] = value]

\* asyncio.gather(client.start(), stats_task()) makes the two tasks ready in
\* this order and the event loop runs its ready tasks in order: start() runs
\* up to its first suspension, the post of register(), and stats_task takes
\* its first step before the registration reply, or a stop() requested in
\* the meantime, can be handled.
FirstRoundDone == stats_task # "created"

\* --------------------------------------------------------------- actions

\* start(): create the HTTP session and post the registration
Start ==
    /\ pc = "created"
    /\ session' = "open"
    /\ registration' = [registration EXCEPT !.posts = @ + 1,
                                              !.outcome = "pending"]
    /\ pc' = "registering"
    /\ UNCHANGED <<max_concurrent, running, session_id, current_load, metrics,
                   current_poll_interval, request_info, chunk_index, loop_ghost,
                   reports, invocations, last_report_status, sleep_arg,
                   stop_requested,
                   stats_task>>

\* register(): status 200, session_id taken from the reply; start() then sets
\* running and enters polling_loop
RegisterOk ==
    /\ pc = "registering"
    /\ FirstRoundDone
    /\ \E sid \in SessionTokens :
          /\ session_id' = sid
          /\ registration' = [registration EXCEPT !.outcome = "ok",
                                                  !.issued = sid]
    /\ running' = TRUE
    /\ pc' = "loop_top"
    /\ UNCHANGED <<max_concurrent, session, current_load, metrics,
                   current_poll_interval, request_info, chunk_index, loop_ghost,
                   reports, invocations, last_report_status, sleep_arg,
                   stop_requested,
                   stats_task>>

\* faulty variant of RegisterFail: the except clause of register logs the
\* exception without raising it again, so start() goes on to the loop
RegisterFail_Swallowed ==
    /\ pc = "registering"
    /\ FirstRoundDone
    /\ registration' = [registration EXCEPT !.outcome = "failed"]
    /\ running' = TRUE
    /\ pc' = "loop_top"
    /\ UNCHANGED <<max_concurrent, session_id, session, current_load,
                   metrics, current_poll_interval, request_info, chunk_index,
                   loop_ghost, reports, invocations, last_report_status,
                   sleep_arg, stop_requested,
                   stats_task>>

\* register(): transport failure, a non-200 status or a reply without
\* session_id; the exception is re-raised and leaves start()
RegisterFail ==
    /\ pc = "registering"
    /\ FirstRoundDone
    /\ registration' = [registration EXCEPT !.outcome = "failed"]
    /\ pc' = "reg_failed"
    /\ UNCHANGED <<max_concurrent, running, session_id, session, current_load,
                   metrics, current_poll_interval, request_info, chunk_index,
                   loop_ghost, reports, invocations, last_report_status,
                   sleep_arg, stop_requested,
                   stats_task>>

\* "while self.running" is false: polling_loop and start() return
LoopExit ==
    /\ pc = "loop_top"
    /\ ~running
    /\ pc' = "exited"
    /\ UNCHANGED <<max_concurrent, running, session_id, session, current_load,
                   metrics, current_poll_interval, request_info, chunk_index,
                   loop_ghost, reports, invocations, last_report_status,
                   sleep_arg, stop_requested,
                   registration,
                   stats_task>>

\* "while self.running" is true: the loop body begins
LoopEnter ==
    /\ pc = "loop_top"
    /\ running
    /\ iterations < MaxIterations
    /\ iterations' = iterations + 1
    /\ pc' = "update_interval"
    /\ UNCHANGED <<max_concurrent, running, session_id, session, current_load,
                   metrics, current_poll_interval, request_info, chunk_index,
                   polls, last_poll, local_interval, reports, invocations,
                   last_report_status, sleep_arg, stop_requested,
                   registration,
                   stats_task>>

\* self.update_poll_interval()
UpdatePollInterval ==
    /\ pc = "update_interval"
    /\ current_poll_interval' =
           update_poll_interval(current_poll_interval, current_load, max_concurrent)
    /\ local_interval' = current_poll_interval'
    /\ pc' = "poll_for_requests"
    /\ UNCHANGED <<max_concurrent, running, session_id, session, current_load,
                   metrics, request_info, chunk_index, iterations, polls,
                   last_poll, reports, invocations, last_report_status,
                   sleep_arg, stop_requested,
                   registration,
                   stats_task>>

\* poll_for_requests(): no session id, the poll is skipped
PollSkip ==
    /\ pc = "poll_for_requests"
    /\ session_id \in FalsySessionIds
    /\ last_poll' = PollOutcome("skipped", NoRecommendation)
    /\ GoSleep(current_poll_interval)
    /\ UNCHANGED <<max_concurrent, running, session_id, session, current_load,
                   metrics, current_poll_interval, request_info, chunk_index,
                   iterations, polls, local_interval, reports, invocations,
                   last_report_status, stop_requested,
                   registration,
                   stats_task>>

PollData ==
    [current_load |-> current_load,
     average_response_time |->
         get_average_response_time(total_response_time, successful_requests),
     success_rate |-> get_success_rate(successful_requests, total_requests),
     session_header |-> session_id]

\* poll_for_requests(): the payload is built and posted; on a closed session
\* the post raises at once and the exception is caught and logged
PollPost ==
    /\ pc = "poll_for_requests"
    /\ session_id \notin FalsySessionIds
    /\ IF session = "open"
       THEN /\ polls' = Append(polls, PollData)
            /\ pc' = "polling"
            /\ UNCHANGED <<last_poll, sleep_arg>>
       ELSE /\ last_poll' = PollOutcome("exception", NoRecommendation)
            /\ GoSleep(current_poll_interval)
            /\ UNCHANGED polls
    /\ UNCHANGED <<max_concurrent, running, session_id, session, current_load,
                   metrics, current_poll_interval, request_info, chunk_index,
                   iterations, local_interval, reports, invocations,
                   last_report_status, stop_requested,
                   registration,
                   stats_task>>

\* faulty variant of PollFail: a failed poll drops the session id so that
\* the worker would register again
PollFail_ResetsSession ==
    /\ pc = "polling"
    /\ \E st \in FailedStatuses : last_poll' = PollOutcome(st, NoRecommendation)
    /\ session_id' = "None"
    /\ GoSleep(current_poll_interval)
    /\ UNCHANGED <<max_concurrent, running, session, current_load,
                   metrics, current_poll_interval, request_info, chunk_index,
                   iterations, polls, local_interval, reports, invocations,
                   last_report_status, stop_requested,
                   registration,
                   stats_task>>

\* faulty variant of PollFail: the failure of the poll is not caught and
\* ends polling_loop
PollFail_EndsLoop ==
    /\ pc = "polling"
    /\ \E st \in FailedStatuses : last_poll' = PollOutcome(st, NoRecommendation)
    /\ pc' = "exited"
    /\ UNCHANGED <<max_concurrent, running, session_id, session, current_load,
                   metrics, current_poll_interval, request_info, chunk_index,
                   iterations, polls, local_interval, reports, invocations,
                   last_report_status, sleep_arg, stop_requested,
                   registration,
                   stats_task>>

\* the poll ends in a transport exception or a status other than 200
PollFail ==
    /\ pc = "polling"
    /\ \E st \in FailedStatuses : last_poll' = PollOutcome(st, NoRecommendation)
    /\ GoSleep(current_poll_interval)
    /\ UNCHANGED <<max_concurrent, running, session_id, session, current_load,
                   metrics, current_poll_interval, request_info, chunk_index,
                   iterations, polls, local_interval, reports, invocations,
                   last_report_status, stop_requested,
                   registration,
                   stats_task>>

\* status 200 without has_request: the recommended interval is adopted
PollIdle ==
    /\ pc = "polling"
    /\ \E r \in RecommendedIntervals :
          /\ current_poll_interval' = recommended_poll_interval(r)
          /\ GoSleep(recommended_poll_interval(r))
          /\ last_poll' = PollOutcome("idle", r)
    /\ UNCHANGED <<max_concurrent, running, session_id, session, current_load,
                   metrics, request_info, chunk_index, iterations, polls,
                   local_interval, reports, invocations, last_report_status,
                   stop_requested, registration,
                   stats_task>>

\* status 200 with has_request, but data['request'] or its 'request_id' is
\* missing: the KeyError is raised before the load is touched and is caught
\* by the except clause of poll_for_requests
PollAssignedMalformed ==
    /\ pc = "polling"
    /\ last_poll' = PollOutcome("malformed", NoRecommendation)
    /\ GoSleep(current_poll_interval)
    /\ UNCHANGED <<max_concurrent, running, session_id, session, current_load,
                   metrics, current_poll_interval, request_info, chunk_index,
                   iterations, polls, local_interval, reports, invocations,
                   last_report_status, stop_requested,
                   registration,
                   stats_task>>

\* status 200 with has_request: process_request(request_info) is awaited
PollAssigned ==
    /\ pc = "polling"
    /\ \E req \in Requests : request_info' = req
    /\ last_poll' = PollOutcome("assigned", NoRecommendation)
    /\ pc' = "process_request"
    /\ UNCHANGED <<max_concurrent, running, session_id, session, current_load,
                   metrics, current_poll_interval, chunk_index, iterations,
                   polls, local_interval, reports, invocations,
                   last_report_status, sleep_arg, stop_requested,
                   registration,
                   stats_task>>

\* faulty variant of ProcessRequestBegin: the request is not counted in
\* total_requests
ProcessRequestBegin_NoTotal ==
    /\ pc = "process_request"
    /\ current_load' = current_load + 1
    /\ total_requests' = total_requests
    /\ invocations' = Append(invocations,
           [request_id |-> request_info.request_id,
            stream |-> request_info.stream,
            outcome |-> "processing", cancelled |-> FALSE, released |-> 0,
            load0 |-> current_load, total0 |-> total_requests,
            successful0 |-> successful_requests,
            time0 |-> total_response_time])
    /\ pc' = "executing"
    /\ UNCHANGED <<max_concurrent, running, session_id, session,
                   successful_requests, total_response_time,
                   current_poll_interval, request_info, chunk_index, loop_ghost,
                   reports, last_report_status, sleep_arg, stop_requested,
                   registration,
                   stats_task>>

\* process_request(): the load is taken and the request counted
ProcessRequestBegin ==
    /\ pc = "process_request"
    /\ current_load' = current_load + 1
    /\ total_requests' = total_requests + 1
    /\ invocations' = Append(invocations,
           [request_id |-> request_info.request_id,
            stream |-> request_info.stream,
            outcome |-> "processing", cancelled |-> FALSE, released |-> 0,
            load0 |-> current_load, total0 |-> total_requests,
            successful0 |-> successful_requests,
            time0 |-> total_response_time])
    /\ pc' = "executing"
    /\ UNCHANGED <<max_concurrent, running, session_id, session,
                   successful_requests, total_response_time,
                   current_poll_interval, request_info, chunk_index, loop_ghost,
                   reports, last_report_status, sleep_arg, stop_requested,
                   registration,
                   stats_task>>

\* faulty variant of ExecutorRaise: the success counter is incremented before
\* the executor is awaited, so a failing request is counted as successful
ExecutorRaise_CountsSuccess ==
    /\ pc = "executing"
    /\ ~request_info.well_formed
    /\ SetInvocation("outcome", "raised")
    /\ successful_requests' = successful_requests + 1
    /\ pc' = "send_error"
    /\ UNCHANGED <<max_concurrent, running, session_id, session, current_load,
                   total_requests, total_response_time,
                   current_poll_interval, request_info, chunk_index,
                   loop_ghost, reports, last_report_status, sleep_arg,
                   stop_requested, registration,
                   stats_task>>

\* simulate_browser_processing(): request_info['model'] or ['messages'] raises
\* KeyError, which the except clause of process_request catches
ExecutorRaise ==
    /\ pc = "executing"
    /\ ~request_info.well_formed
    /\ SetInvocation("outcome", "raised")
    /\ pc' = "send_error"
    /\ UNCHANGED <<max_concurrent, running, session_id, session, current_load,
                   metrics, current_poll_interval, request_info, chunk_index,
                   loop_ghost, reports, last_report_status, sleep_arg,
                   stop_requested, registration,
                   stats_task>>

\* simulate_browser_processing(): the streaming branch begins
ExecutorStream ==
    /\ pc = "executing"
    /\ request_info.well_formed
    /\ request_info.stream
    /\ chunk_index' = 0
    /\ pc' = "send_chunk"
    /\ UNCHANGED <<max_concurrent, running, session_id, session, current_load,
                   metrics, current_poll_interval, request_info, loop_ghost,
                   reports, invocations, last_report_status, sleep_arg,
                   stop_requested, registration,
                   stats_task>>

\* simulate_browser_processing(): the non-streaming branch, asyncio.sleep(1)
ExecutorNonStream ==
    /\ pc = "executing"
    /\ request_info.well_formed
    /\ ~request_info.stream
    /\ pc' = "nonstream_sleep"
    /\ UNCHANGED <<max_concurrent, running, session_id, session, current_load,
                   metrics, current_poll_interval, request_info, chunk_index,
                   loop_ghost, reports, invocations, last_report_status,
                   sleep_arg, stop_requested,
                   registration,
                   stats_task>>

\* send_chunk(request_id, chunk, i)
SendChunk ==
    /\ pc = "send_chunk"
    /\ SendResponse(ReportData("chunk", ChunkSequence(chunk_index), ""),
                    "chunk_post", "chunk_sleep")
    /\ UNCHANGED <<max_concurrent, running, session_id, session, current_load,
                   metrics, current_poll_interval, request_info, chunk_index,
                   loop_ghost, invocations, sleep_arg, stop_requested,
                   registration,
                   stats_task>>

\* faulty variant of AfterChunkPost: a chunk whose report failed is sent
\* again
AfterChunkPost_Retry(status) ==
    IF status \in FailedStatuses THEN "send_chunk" ELSE "chunk_sleep"

\* position after the post of a chunk report ended with status:
\* send_response logs a failure and returns to send_chunk's caller
AfterChunkPost(status) == "chunk_sleep"

\* the post of a chunk report ends, with any outcome; asyncio.sleep(0.1) begins
ChunkPostDone ==
    /\ pc = "chunk_post"
    /\ \E st \in ReportStatuses :
          /\ last_report_status' = st
          /\ pc' = AfterChunkPost(st)
    /\ UNCHANGED <<max_concurrent, running, session_id, session, current_load,
                   metrics, current_poll_interval, request_info, chunk_index,
                   loop_ghost, reports, invocations, sleep_arg, stop_requested,
                   registration,
                   stats_task>>

\* faulty variant of AfterChunk: the loop over the chunks is left after the first
AfterChunk_StopEarly(i) == "mark_successful"

\* position after the streaming delay of chunk i
AfterChunk(i) == IF i + 1 < NumChunks THEN "send_chunk" ELSE "mark_successful"

\* asyncio.sleep(0.1) ends: the next chunk, or the end of the executor
ChunkSleepDone ==
    /\ pc = "chunk_sleep"
    /\ pc' = AfterChunk(chunk_index)
    /\ chunk_index' = chunk_index + 1
    /\ last_report_status' = "none"
    /\ UNCHANGED <<max_concurrent, running, session_id, session, current_load,
                   metrics, current_poll_interval, request_info, loop_ghost,
                   reports, invocations, sleep_arg, stop_requested,
                   registration,
                   stats_task>>

\* asyncio.sleep(1) of the non-streaming branch ends
NonStreamSleepDone ==
    /\ pc = "nonstream_sleep"
    /\ pc' = "mark_successful"
    /\ UNCHANGED <<max_concurrent, running, session_id, session, current_load,
                   metrics, current_poll_interval, request_info, chunk_index,
                   loop_ghost, reports, invocations, last_report_status,
                   sleep_arg, stop_requested,
                   registration,
                   stats_task>>

\* the executor returned: the success counters, then send_completion
MarkSuccessful ==
    /\ pc = "mark_successful"
    /\ successful_requests' = successful_requests + 1
    /\ \E response_time \in 1..MaxLatency :
          total_response_time' = total_response_time + response_time
    /\ SetInvocation("outcome", "succeeded")
    /\ SendResponse(ReportData("complete", -1, ""), "complete_post", "finally")
    /\ UNCHANGED <<max_concurrent, running, session_id, session, current_load,
                   total_requests, current_poll_interval, request_info,
                   chunk_index, loop_ghost, sleep_arg, stop_requested,
                   registration,
                   stats_task>>

\* faulty variant of ErrorData: the error classification is left out
ErrorData_NoType == ReportData("error", -1, "")

\* error_data of send_error
ErrorData == ReportData("error", -1, "processing_error")

\* the except clause: send_error(request_id, str(e))
SendError ==
    /\ pc = "send_error"
    /\ SendResponse(ErrorData, "error_post", "finally")
    /\ UNCHANGED <<max_concurrent, running, session_id, session, current_load,
                   metrics, current_poll_interval, request_info, chunk_index,
                   loop_ghost, invocations, sleep_arg, stop_requested,
                   registration,
                   stats_task>>

\* faulty variant of AfterTerminalPost: the exception of the post leaves
\* send_response, so that the except clause of process_request sees the
\* failed completion report
AfterTerminalPost_Raises(p, status) ==
    IF p = "complete_post" /\ status = "exception" THEN "send_error"
    ELSE "finally"

\* position after the post of the terminal report at p ended with status:
\* send_response logs a failure and returns, so the try statement is left
AfterTerminalPost(p, status) == "finally"

\* the post of the completion or error report ends, with any outcome
TerminalPostDone ==
    /\ pc \in {"complete_post", "error_post"}
    /\ \E st \in ReportStatuses :
          /\ last_report_status' = st
          /\ pc' = AfterTerminalPost(pc, st)
    /\ UNCHANGED <<max_concurrent, running, session_id, session, current_load,
                   metrics, current_poll_interval, request_info, chunk_index,
                   loop_ghost, reports, invocations, sleep_arg, stop_requested,
                   registration,
                   stats_task>>

\* the finally clause; process_request and poll_for_requests return and the
\* loop goes to its sleep
Finally ==
    /\ pc = "finally"
    /\ current_load' = ReleaseLoad(current_load)
    /\ SetInvocation("released", invocations[Len(invocations)].released + 1)
    /\ request_info' = NoRequest
    /\ last_report_status' = "none"
    /\ GoSleep(current_poll_interval)
    /\ UNCHANGED <<max_concurrent, running, session_id, session, metrics,
                   current_poll_interval, chunk_index, loop_ghost, reports,
                   stop_requested, registration,
                   stats_task>>

\* asyncio.sleep(self.current_poll_interval) ends
SleepDone ==
    /\ pc = "sleep"
    /\ pc' = "loop_top"
    /\ UNCHANGED <<max_concurrent, running, session_id, session, current_load,
                   metrics, current_poll_interval, request_info, chunk_index,
                   loop_ghost, reports, invocations, last_report_status,
                   sleep_arg, stop_requested,
                   registration,
                   stats_task>>

\* stop(), run as its own task by the signal handler, or by main's finally
\* clause once start() has ended
Stop ==
    /\ pc \in AwaitPcs \cup EndPcs \cup {"created"}
    /\ pc = "registering" => FirstRoundDone
    /\ running' = FALSE
    /\ session' = IF session = "None" THEN "None" ELSE "closed"
    /\ stop_requested' = TRUE
    /\ UNCHANGED <<max_concurrent, session_id, current_load, metrics,
                   current_poll_interval, pc, request_info, chunk_index,
                   loop_ghost, reports, invocations, last_report_status,
                   sleep_arg, registration,
                   stats_task>>

\* main's stats_task: the test of "while client.running", at its first step
\* or when asyncio.sleep(args.stats_interval) has ended; in the second case
\* "if client.running: client.print_stats()" comes first, and nothing can
\* change the flag between the two tests
StatsTask ==
    /\ pc # "created"
    /\ stats_task \in {"created", "sleeping"}
    /\ stats_task' = IF running THEN "sleeping" ELSE "done"
    /\ UNCHANGED <<max_concurrent, running, session_id, session, current_load,
                   metrics, current_poll_interval, pc, request_info,
                   chunk_index, loop_ghost, reports, invocations,
                   last_report_status, sleep_arg, stop_requested,
                   registration>>

\* faulty variant of CancelReleases: the decrement follows the try statement instead
\* of standing in its finally clause, so a cancellation skips it
CancelReleases_Never(p) == FALSE

\* the finally clause of process_request runs when a CancelledError passes
CancelReleases(p) == p \in TryPcs

\* the task is cancelled at an await: CancelledError is no Exception, so no
\* except clause catches it; the finally clause of process_request runs if
\* the task is inside its try block
Cancel ==
    /\ pc \in AwaitPcs
    /\ FirstRoundDone
    /\ IF CancelReleases(pc)
       THEN /\ current_load' = ReleaseLoad(current_load)
            /\ invocations' = [invocations EXCEPT
                   ![Len(invocations)].released = @ + 1,
                   ![Len(invocations)].cancelled = TRUE]
       ELSE UNCHANGED <<current_load, invocations>>
    /\ request_info' = NoRequest
    /\ last_report_status' = "none"
    /\ pc' = "cancelled"
    /\ UNCHANGED <<max_concurrent, running, session_id, session, metrics,
                   current_poll_interval, chunk_index, loop_ghost, reports,
                   sleep_arg, stop_requested,
                   registration,
                   stats_task>>

Next ==
    \/ Start
    \/ RegisterOk
    \/ RegisterFail
    \/ LoopExit
    \/ LoopEnter
    \/ UpdatePollInterval
    \/ PollSkip
    \/ PollPost
    \/ PollFail
    \/ PollIdle
    \/ PollAssignedMalformed
    \/ PollAssigned
    \/ ProcessRequestBegin
    \/ ExecutorRaise
    \/ ExecutorStream
    \/ ExecutorNonStream
    \/ SendChunk
    \/ ChunkPostDone
    \/ ChunkSleepDone
    \/ NonStreamSleepDone
    \/ MarkSuccessful
    \/ SendError
    \/ TerminalPostDone
    \/ Finally
    \/ SleepDone
    \/ Stop
    \/ Cancel
    \/ StatsTask

Spec == Init /\ [][Next]_vars

TypeOK ==
    /\ max_concurrent \in 1..(MaxConcurrent + 1)
    /\ running \in BOOLEAN
    /\ session_id \in {"None"} \cup SessionTokens
    /\ session \in {"None", "open", "closed"}
    /\ current_load \in Int
    /\ pc \in AwaitPcs \cup EndPcs \cup
             {"created", "loop_top", "update_interval", "poll_for_requests",
              "process_request", "executing", "send_chunk", "mark_successful",
              "send_error", "finally"}
    /\ chunk_index \in 0..NumChunks
    /\ stats_task \in {"created", "sleeping", "done"}

\* ------------------------------------- the worker left to run

\* the steps of the start() task itself
TaskStep ==
    \/ Start
    \/ RegisterOk
    \/ RegisterFail
    \/ LoopExit
    \/ LoopEnter
    \/ UpdatePollInterval
    \/ PollSkip
    \/ PollPost
    \/ PollFail
    \/ PollIdle
    \/ PollAssignedMalformed
    \/ PollAssigned
    \/ ProcessRequestBegin
    \/ ExecutorRaise
    \/ ExecutorStream
    \/ ExecutorNonStream
    \/ SendChunk
    \/ ChunkPostDone
    \/ ChunkSleepDone
    \/ NonStreamSleepDone
    \/ MarkSuccessful
    \/ SendError
    \/ TerminalPostDone
    \/ Finally
    \/ SleepDone

\* The worker with a fair event loop: a task whose await has ended is
\* resumed, every post ends (in a reply or, by the 30 s ClientTimeout, in an
\* exception) and every sleep ends, so the task is not left waiting forever.
\* stop() and a cancellation may come at any time, or never.
SpecLive == Init /\ [][Next]_vars /\ WF_vars(TaskStep)

\* ------------------------------------- the metrics functions on their own

\* Counter states the worker can be in when it builds a poll payload: no
\* more successes than requests, and latency only from successes.
InitMetrics ==
    /\ max_concurrent \in 1..MaxConcurrent
    /\ current_load = 0
    /\ current_poll_interval = RInt(base_poll_interval)
    /\ running = TRUE
    /\ session_id = "s1"
    /\ session = "open"
    /\ total_requests \in 0..MaxCount
    /\ successful_requests \in 0..total_requests
    /\ total_response_time \in
           IF successful_requests = 0 THEN {0} ELSE 1..MaxTime
    /\ pc = "poll_for_requests"
    /\ request_info = NoRequest
    /\ chunk_index = 0
    /\ iterations = 1
    /\ polls = <<>>
    /\ reports = <<>>
    /\ invocations = <<>>
    /\ last_poll = PollOutcome("none", NoRecommendation)
    /\ local_interval = RInt(base_poll_interval)
    /\ last_report_status = "none"
    /\ sleep_arg = RInt(0)
    /\ stop_requested = FALSE
    /\ registration = [posts |-> 1, outcome |-> "ok", issued |-> "s1"]
    /\ stats_task = "done"

NextMetrics == PollPost

SpecMetrics == InitMetrics /\ [][NextMetrics]_vars

\* ------------------------------------- update_poll_interval on its own

\* Intervals given to update_poll_interval: the quarters from 0 to the cap
UPIIntervals == {Rat(n, 4) : n \in 0..(4 * MaxPollInterval)}

\* Any load, any cap and any interval, at the call of update_poll_interval
InitUPI ==
    /\ max_concurrent \in 1..MaxConcurrent
    /\ current_load \in 0..MaxLoadInput
    /\ current_poll_interval \in UPIIntervals
    /\ running = TRUE
    /\ session_id = "s1"
    /\ session = "open"
    /\ total_requests = 0
    /\ successful_requests = 0
    /\ total_response_time = 0
    /\ pc = "update_interval"
    /\ request_info = NoRequest
    /\ chunk_index = 0
    /\ iterations = 1
    /\ polls = <<>>
    /\ reports = <<>>
    /\ invocations = <<>>
    /\ last_poll = PollOutcome("none", NoRecommendation)
    /\ local_interval = RInt(base_poll_interval)
    /\ last_report_status = "none"
    /\ sleep_arg = RInt(0)
    /\ stop_requested = FALSE
    /\ registration = [posts |-> 1, outcome |-> "ok", issued |-> "s1"]
    /\ stats_task = "done"

NextUPI == UpdatePollInterval

SpecUPI == InitUPI /\ [][NextUPI]_vars

\* ---------------------------------------------------------------- claims

\* positions between the load increment and the finally clause
ProcessingPcs == {"executing", "send_chunk", "chunk_post", "chunk_sleep",
                  "nonstream_sleep", "mark_successful", "complete_post",
                  "send_error", "error_post", "finally"}

\* C1: in every reachable state, under any interleaving of the poll loop,
\* request start, request finalization and stop(), the load is at least 0 and
\* at most max_concurrent.
C1_LoadWithinBounds ==
    /\ 0 <= current_load
    /\ current_load <= max_concurrent

\* C1 witness: a request is in flight at the cap after stop() was called.
C1_Witness ==
    /\ pc = "chunk_sleep"
    /\ current_load = max_concurrent
    /\ stop_requested

\* number of invocations whose unit of load has not been released
Unreleased ==
    Cardinality({k \in DOMAIN invocations : invocations[k].released = 0})

\* C2: every request that took a unit of load releases it exactly once,
\* however its execution ends (completion, executor error, cancellation): no
\* invocation releases twice, an invocation that has ended has released, one
\* still in its try block has not, and the load counts the unreleased ones.
C2_ReleasedExactlyOnce ==
    /\ \A k \in DOMAIN invocations :
          /\ invocations[k].released <= 1
          /\ k < Len(invocations) => invocations[k].released = 1
    /\ invocations # <<>> =>
          (invocations[Len(invocations)].released = 0 <=> pc \in ProcessingPcs)
    /\ current_load = Unreleased

\* C2 witness: one request ended normally and a later one was cancelled in
\* the middle of its stream, both with their load released.
C2_Witness ==
    /\ pc = "cancelled"
    /\ Len(invocations) = 2
    /\ invocations[1].outcome = "succeeded"
    /\ ~invocations[1].cancelled
    /\ invocations[2].outcome = "processing"
    /\ invocations[2].cancelled
    /\ invocations[1].released = 1
    /\ invocations[2].released = 1
    /\ current_load = 0

\* an interval lies in [1 s, 30 s]
InRange(x) == RLeq(RInt(MinPollInterval), x) /\ RLeq(x, RInt(MaxPollInterval))

\* C3: in every reachable state the poll interval, and the value used for
\* the inter-poll sleep, lies between 1 s and 30 s, whatever poll_interval
\* the dispatcher recommends.
C3_IntervalWithinBounds ==
    /\ InRange(current_poll_interval)
    /\ pc = "sleep" => InRange(sleep_arg)

\* positions of polling_loop and poll_for_requests outside process_request
LoopPcs == {"loop_top", "update_interval", "poll_for_requests", "polling",
            "sleep"}

\* C4: the poll loop does not wait for an assigned request: while a request
\* is in Processing the loop is at one of its own positions (sleeping,
\* computing the interval, polling), not suspended inside the request.
C4_LoopDoesNotWait ==
    current_load > 0 => pc \in LoopPcs

\* every poll so far was answered with a request that began processing
KeepsAssigning == pc # "polling" /\ Len(invocations) = Len(polls)

\* C5: with max_concurrent > 1 and a dispatcher that keeps assigning work,
\* the load reaches max_concurrent: once max_concurrent requests have been
\* assigned, one of them began while max_concurrent - 1 others were in flight.
C5_CapReached ==
    (/\ max_concurrent > 1
     /\ KeepsAssigning
     /\ Len(invocations) >= max_concurrent)
    => \E k \in DOMAIN invocations : invocations[k].load0 + 1 = max_concurrent

\* the step in which a poll ends with an Idle reply that recommends an interval
IdleReplyStep ==
    /\ pc = "polling"
    /\ pc' = "sleep"
    /\ last_poll'.outcome = "idle"
    /\ last_poll'.poll_interval # NoRecommendation

\* the step of update_poll_interval in the iteration after an Idle reply
UpdateAfterIdleStep ==
    /\ pc = "update_interval"
    /\ pc' # pc
    /\ last_poll.outcome = "idle"
    /\ last_poll.poll_interval # NoRecommendation

\* min(r, 30 s) for a recommended r
CappedRecommendation(r) ==
    IF r > MaxPollInterval THEN RInt(MaxPollInterval) ELSE RInt(r)

\* C6 (as amended): after an Idle reply recommending r, the sleep before the
\* next poll lasts min(r, 30 s) instead of the locally computed value; the
\* override is stored in current_poll_interval, and the following iteration
\* recomputes the interval from the load starting from the overridden value.
C6_RecommendedOverride ==
    [][/\ IdleReplyStep =>
            /\ sleep_arg' = CappedRecommendation(last_poll'.poll_interval)
            /\ current_poll_interval' = sleep_arg'
       /\ UpdateAfterIdleStep =>
            current_poll_interval' =
                update_poll_interval(sleep_arg, current_load, max_concurrent)
      ]_vars

\* C6 witness: an Idle reply recommended 10 s while the local value was 4 s,
\* the loop slept 10 s and the next iteration computed 8 s from it.
C6_Witness ==
    /\ pc = "poll_for_requests"
    /\ iterations = 2
    /\ last_poll = PollOutcome("idle", 10)
    /\ sleep_arg = RInt(10)
    /\ current_poll_interval = RInt(8)

\* C6 (original): the sleep after an Idle reply lasts min(r, 30 s), and the
\* override lasts for that one cycle only: the following iteration's interval
\* is the one the local computation gives from its own previous value.
C6_OverrideOneCycleOnly ==
    [][/\ IdleReplyStep =>
            sleep_arg' = CappedRecommendation(last_poll'.poll_interval)
       /\ UpdateAfterIdleStep =>
            current_poll_interval' =
                update_poll_interval(local_interval, current_load, max_concurrent)
      ]_vars

\* the interval the three rules give, on numerators and denominators:
\* min(i * 1.5, 30) when saturated, max(i * 0.8, 1) when idle, else the base
ExpectedInterval(i, load, maxc) ==
    IF load >= maxc
    THEN IF 3 * i[1] <= 2 * MaxPollInterval * i[2]
         THEN Rat(3 * i[1], 2 * i[2]) ELSE RInt(MaxPollInterval)
    ELSE IF load = 0
         THEN IF 4 * i[1] >= 5 * MinPollInterval * i[2]
              THEN Rat(4 * i[1], 5 * i[2]) ELSE RInt(MinPollInterval)
         ELSE RInt(base_poll_interval)

\* C7: update_poll_interval sets the interval to min(interval * 1.5, 30) when
\* current_load >= max_concurrent, to max(interval * 0.8, 1) when
\* current_load = 0 below the cap, and to the base interval 5 otherwise, for
\* every interval and load, and changes no other field.
C7_UpdatePollInterval ==
    [][(pc = "update_interval" /\ pc' # pc) =>
          /\ current_poll_interval' =
                 ExpectedInterval(current_poll_interval, current_load,
                                  max_concurrent)
          /\ UNCHANGED <<max_concurrent, running, session_id, session,
                         current_load, total_requests, successful_requests,
                         total_response_time, request_info, polls, reports,
                         invocations>>
      ]_vars

\* C7 witness: update_poll_interval has run at a load equal to the cap and
\* multiplied 5 s by 1.5.
C7_Witness ==
    /\ pc = "poll_for_requests"
    /\ current_load = max_concurrent
    /\ current_poll_interval = <<15, 2>>

\* the reports of the k-th call of process_request, in the order of issue
ReportsOf(k) == SelectSeq(reports, LAMBDA r : r.inv = k)
ChunksOf(k) == SelectSeq(reports, LAMBDA r : r.inv = k /\ r.type = "chunk")
CountOf(k, type) ==
    Len(SelectSeq(reports, LAMBDA r : r.inv = k /\ r.type = type))

\* chunks the executor has yielded so far in the running invocation
ChunksYielded ==
    IF pc \in {"chunk_post", "chunk_sleep"} THEN chunk_index + 1 ELSE chunk_index

\* C8: the chunk reports of one streaming request carry the sequence numbers
\* 0, 1, ..., n-1 in the order of issue, without gap or repeat, one report per
\* chunk yielded, chunk k+1 after chunk k; a request whose executor ran to
\* its end has all n of them.
C8_ChunkSequence ==
    \A k \in DOMAIN invocations :
        LET c == ChunksOf(k)
            e == invocations[k]
        IN /\ \A j \in 1..Len(c) : c[j].sequence = j - 1
           /\ ~e.stream => Len(c) = 0
           /\ (e.stream /\ e.outcome = "succeeded") => Len(c) = NumChunks
           /\ (k = Len(invocations) /\ e.stream /\ e.outcome = "processing"
                  /\ pc \in {"send_chunk", "chunk_post", "chunk_sleep"})
                 => Len(c) = ChunksYielded

\* C8 witness: a streaming request has ended with its eight chunk reports.
C8_Witness ==
    /\ pc = "sleep"
    /\ Len(invocations) = 1
    /\ invocations[1].stream
    /\ invocations[1].outcome = "succeeded"
    /\ Len(ChunksOf(1)) = NumChunks

\* C9: a request whose executor succeeds has exactly one completion report,
\* issued after its last chunk report (after none when it does not stream)
\* and followed by no further report of that request; a request whose
\* executor has not succeeded has none.
C9_CompletionAfterChunks ==
    \A k \in DOMAIN invocations :
        LET r == ReportsOf(k)
            e == invocations[k]
            n == IF e.stream THEN NumChunks ELSE 0
        IN IF e.outcome = "succeeded"
           THEN /\ CountOf(k, "complete") = 1
                /\ Len(r) = n + 1
                /\ r[n + 1].type = "complete"
                /\ \A j \in 1..n : r[j].type = "chunk" /\ r[j].sequence = j - 1
           ELSE CountOf(k, "complete") = 0

\* C9 witness: a non-streaming and a streaming request have both completed.
C9_Witness ==
    /\ pc = "sleep"
    /\ Len(invocations) = 2
    /\ ~invocations[1].stream
    /\ invocations[1].outcome = "succeeded"
    /\ invocations[2].stream
    /\ invocations[2].outcome = "succeeded"
    /\ CountOf(1, "complete") = 1
    /\ CountOf(2, "complete") = 1

\* C10: when the executor raises, exactly one error report (type "error",
\* error_type "processing_error") is issued for that request id;
\* total_requests is one more than before the request, the load is back at
\* its value before the request once the request has ended, and
\* successful_requests and total_response_time are what they were.
C10_ExecutorError ==
    \A k \in DOMAIN invocations :
        LET r == ReportsOf(k)
            e == invocations[k]
            last == k = Len(invocations)
        IN e.outcome = "raised" =>
             /\ CountOf(k, "error") = IF last /\ pc = "send_error" THEN 0 ELSE 1
             /\ \A j \in 1..Len(r) :
                   r[j].type = "error" =>
                       /\ r[j].error_type = "processing_error"
                       /\ r[j].request_id = e.request_id
             /\ last =>
                   /\ total_requests = e.total0 + 1
                   /\ successful_requests = e.successful0
                   /\ total_response_time = e.time0
                   /\ current_load = e.load0 + (1 - e.released)

\* C10 witness: after one successful request, a second one failed in the
\* executor, sent its error report and gave its load back.
C10_Witness ==
    /\ pc = "sleep"
    /\ Len(invocations) = 2
    /\ invocations[1].outcome = "succeeded"
    /\ invocations[2].outcome = "raised"
    /\ invocations[2].released = 1
    /\ CountOf(2, "error") = 1
    /\ successful_requests = 1
    /\ total_requests = 2
    /\ current_load = 0

\* ------------------------------------------------ C11: terminal outcome

TerminalTypes == {"complete", "error"}

\* C11: every processed request (every call of process_request) has at most
\* one terminal report, a completion or an error and never both; no report
\* of the request follows its terminal report; every report of the request
\* carries its request id; and a request whose processing ran to its end
\* has exactly one terminal report, the completion if the executor returned
\* and the error if it raised.
C11_OneTerminalOutcome ==
    \A k \in DOMAIN invocations :
        LET r == ReportsOf(k)
            e == invocations[k]
            terminal == CountOf(k, "complete") + CountOf(k, "error")
        IN /\ terminal <= 1
           /\ \A j \in 1..Len(r) :
                 /\ r[j].request_id = e.request_id
                 /\ r[j].type \in TerminalTypes => j = Len(r)
           /\ (e.released = 1 /\ ~e.cancelled) =>
                 /\ terminal = 1
                 /\ e.outcome = "succeeded" => CountOf(k, "complete") = 1
                 /\ e.outcome = "raised" => CountOf(k, "error") = 1

\* C11 witness: a streaming request ended with its completion report after
\* its chunks, and a later request ended with its error report.
C11_Witness ==
    /\ pc = "sleep"
    /\ Len(invocations) = 2
    /\ invocations[1].stream
    /\ invocations[1].released = 1
    /\ invocations[2].released = 1
    /\ ~invocations[1].cancelled
    /\ ~invocations[2].cancelled
    /\ Len(ReportsOf(1)) = NumChunks + 1
    /\ CountOf(1, "complete") = 1
    /\ CountOf(1, "error") = 0
    /\ CountOf(2, "error") = 1
    /\ CountOf(2, "complete") = 0

\* ------------------------------------------------ C12: stop and the loop

\* C12: once stop() has been requested the loop starts no new poll, and the
\* next test of "while self.running" at the top of the loop leaves the loop.
C12_StopHaltsPolling ==
    [][stop_requested =>
          /\ polls' = polls
          /\ pc = "loop_top" => pc' = "exited"]_vars

\* ------------------------------------------------ C13: shutdown and reports

\* C13: a shutdown does not disturb the request in flight: every report the
\* request issues, before or after stop(), is posted to the dispatcher.
C13_ReportsStillSent ==
    \A j \in DOMAIN reports : reports[j].posted

\* ------------------------------------------------ C14: lifecycle

\* C14: once stop() has been requested and the worker has left Running, no
\* interleaving of start() and stop() brings it back to Running.
C14_NeverRunningAgain ==
    [][(stop_requested /\ ~running) => ~running']_vars

\* ------------------------------------------------ C15: failed registration

\* C15: when the registration has failed, the exception has left start():
\* no session id is set, the worker is not running, and no poll and no
\* report has been sent or is sent afterwards.
C15_RegistrationFailurePropagates ==
    registration.outcome = "failed" =>
        /\ pc = "reg_failed"
        /\ session_id = "None"
        /\ ~running
        /\ iterations = 0
        /\ polls = <<>>
        /\ reports = <<>>
        /\ invocations = <<>>

\* C15 witness: the registration failed and main's finally clause has run
\* stop() on the worker that never started.
C15_Witness ==
    /\ registration = [posts |-> 1, outcome |-> "failed", issued |-> "None"]
    /\ pc = "reg_failed"
    /\ stop_requested
    /\ session = "closed"

\* ------------------------------------------------ C16: session header

\* the X-Browser-Session-ID header h is the id issued at registration
IssuedHeader(h) == h # "None" /\ h # "" /\ h = registration.issued

\* C16: while the worker has no session id (None, or the empty id) no poll
\* and no report has been sent, and every poll and every report carries in
\* its X-Browser-Session-ID header the session id issued at registration.
C16_SessionHeader ==
    /\ (session_id = "None" \/ session_id = "") =>
           polls = <<>> /\ reports = <<>>
    /\ \A j \in DOMAIN polls : IssuedHeader(polls[j].session_header)
    /\ \A j \in DOMAIN reports : IssuedHeader(reports[j].session_header)

\* C16 witness: two polls and the reports of a request have been sent under
\* the issued session id.
C16_Witness ==
    /\ registration.issued = "s1"
    /\ Len(polls) = 2
    /\ Len(reports) > NumChunks
    /\ \A j \in DOMAIN reports : reports[j].posted

\* ------------------------------------------------ C17: one registration

\* C17: at most one registration request is sent, and once the registration
\* reply has set the session id no step changes it: whatever fails later,
\* the worker neither registers again nor resets its session id.
C17_SingleRegistration ==
    [][/\ registration'.posts <= 1
       /\ registration.outcome = "ok" =>
             /\ session_id' = session_id
             /\ session_id' = registration.issued
             /\ registration' = registration]_vars

\* C17 witness: a request failed in the executor, the following poll failed
\* too, and the worker still holds the session id of its one registration.
C17_Witness ==
    /\ registration = [posts |-> 1, outcome |-> "ok", issued |-> "s1"]
    /\ session_id = "s1"
    /\ Len(invocations) = 1
    /\ invocations[1].outcome = "raised"
    /\ Len(polls) = 2
    /\ last_poll.outcome \in FailedStatuses
    /\ pc = "sleep"

\* ------------------------------------------------ C18: failures and the loop

\* the last poll that ended has failed
PollJustFailed == pc # "polling" /\ last_poll.outcome \in FailedStatuses

\* the executor has just raised in the request being processed
ExecutorJustFailed == pc = "send_error"

\* C18: while stop() is not requested, a failed poll (exception or status
\* other than 200) or a failed executor does not end the loop: from every
\* such failure the worker comes to issue another poll, unless stop() is
\* requested or the task is cancelled first (stated for the failures of the
\* iterations before the last one the model runs).
C18_LoopSurvivesFailures ==
    \A n \in 1..(MaxIterations - 1) : \A m \in 0..MaxIterations :
        ((PollJustFailed \/ ExecutorJustFailed)
            /\ iterations = n /\ Len(polls) = m)
        ~> (Len(polls) > m \/ stop_requested \/ pc = "cancelled")

\* C18 witness: the first poll failed and the worker is waiting for the
\* reply to its second poll.
C18_Witness ==
    /\ pc = "polling"
    /\ iterations = 2
    /\ Len(polls) = 2
    /\ last_poll.outcome \in FailedStatuses
    /\ ~stop_requested

\* ------------------------------------------------ C19: retry delay

\* the fixed delay of the except clause of polling_loop, in seconds
RetryDelay == 5

\* C19: after a poll that ended in a transport exception the loop waits the
\* fixed retry delay of 5 s before its next poll, not the adaptive interval.
C19_FixedRetryDelay ==
    (pc = "sleep" /\ last_poll.outcome = "exception") =>
        sleep_arg = RInt(RetryDelay)

\* ------------------------------------------------ C20: no retry of reports

\* positions at which the post of a report is being awaited
PostPcs == {"chunk_post", "complete_post", "error_post"}

\* no report of a request has been issued twice
NoReportTwice ==
    \A i, j \in DOMAIN reports :
        i < j => <<reports[i].inv, reports[i].type, reports[i].sequence>> #
                 <<reports[j].inv, reports[j].type, reports[j].sequence>>

\* C20: every report is attempted once.  When the post of a report ends,
\* with status 200, another status or an exception, no report is issued
\* again and the worker goes on where it goes after a successful report:
\* to the delay before the next chunk after a chunk report, to the finally
\* clause (the release of the load) after a terminal report.  The same holds
\* when the post raises at once.
C20_ReportAttemptedOnce ==
    [][/\ NoReportTwice'
       /\ (pc \in PostPcs /\ pc' \notin {pc, "cancelled"}) =>
             /\ reports' = reports
             /\ last_report_status' \in ReportStatuses
             /\ pc' = IF pc = "chunk_post" THEN "chunk_sleep" ELSE "finally"
       /\ (last_report_status = "none" /\ last_report_status' \in FailedStatuses) =>
             /\ Len(reports') <= Len(reports) + 1
             /\ pc' \in {"chunk_sleep", "finally"}]_vars

\* C20 witness: reports of a streaming request failed (the posts raised),
\* and the request still issued each of its chunks once and its completion,
\* and released its load.
C20_Witness ==
    /\ pc = "sleep"
    /\ Len(invocations) = 1
    /\ invocations[1].outcome = "succeeded"
    /\ invocations[1].released = 1
    /\ ~invocations[1].cancelled
    /\ Len(ChunksOf(1)) = NumChunks
    /\ CountOf(1, "complete") = 1
    /\ \E j \in DOMAIN reports : reports[j].type = "chunk" /\ ~reports[j].posted
    /\ current_load = 0

\* ------------------------------------------------ C21: metrics per request

\* this step begins the processing of a request
RequestBegins == Len(invocations') = Len(invocations) + 1

\* this step marks the running request as successful
RequestSucceeds ==
    /\ Len(invocations') = Len(invocations)
    /\ invocations # <<>>
    /\ invocations[Len(invocations)].outcome # "succeeded"
    /\ invocations'[Len(invocations)].outcome = "succeeded"

\* C21: total_requests grows by exactly one in the step that begins a
\* request and in no other step; successful_requests grows by one and
\* total_response_time by the latency of the request in the one step that
\* marks a request successful, and neither changes in any other step, the
\* steps of a failing request included.
C21_MetricsOncePerRequest ==
    [][/\ total_requests' =
              total_requests + (IF RequestBegins THEN 1 ELSE 0)
       /\ successful_requests' =
              successful_requests + (IF RequestSucceeds THEN 1 ELSE 0)
       /\ IF RequestSucceeds
          THEN total_response_time' - total_response_time \in 1..MaxLatency
          ELSE total_response_time' = total_response_time
       /\ \A k \in DOMAIN invocations :
             /\ invocations[k].outcome = "succeeded" =>
                    invocations'[k].outcome = "succeeded"
             /\ invocations[k].outcome = "raised" =>
                    invocations'[k].outcome = "raised"]_vars

\* C21 witness: a request that failed and then one that succeeded have
\* ended; both were counted, one as successful, with one latency.
C21_Witness ==
    /\ pc = "sleep"
    /\ Len(invocations) = 2
    /\ invocations[1].outcome = "raised"
    /\ invocations[2].outcome = "succeeded"
    /\ invocations[2].released = 1
    /\ total_requests = 2
    /\ successful_requests = 1
    /\ total_response_time \in 1..MaxLatency

\* ------------------------------------------------ C22: successes and total

\* C22: in every reachable state successful_requests <= total_requests.
C22_SuccessfulAtMostTotal ==
    /\ 0 <= successful_requests
    /\ successful_requests <= total_requests

\* C22 witness: two requests were processed and both succeeded, so the two
\* counters are equal.
C22_Witness ==
    /\ total_requests = 2
    /\ successful_requests = 2
    /\ Len(invocations) = 2
    /\ invocations[2].released = 1

\* ------------------------------------------------ C23: success rate

\* C23: get_success_rate is 100 when total_requests is 0 and otherwise
\* 100 * successful_requests / total_requests; the value lies in [0, 100]
\* and is the success_rate of the poll payload built from the counters.
C23_SuccessRate ==
    LET rate == get_success_rate(successful_requests, total_requests)
    IN /\ total_requests = 0 => rate = RInt(100)
       /\ total_requests # 0 =>
              rate = Rat(100 * successful_requests, total_requests)
       /\ RLeq(RInt(0), rate)
       /\ RLeq(rate, RInt(100))
       /\ \A j \in DOMAIN polls : polls[j].success_rate = rate

\* C23 witness: a poll payload was built with one success out of three
\* requests.
C23_Witness ==
    /\ Len(polls) = 1
    /\ total_requests = 3
    /\ successful_requests = 1
    /\ polls[1].success_rate = <<100, 3>>

\* ------------------------------------------------ C24: average latency

\* C24: get_average_response_time is 0 when successful_requests is 0 and
\* otherwise total_response_time / successful_requests, whatever the number
\* of failed requests; it is the average_response_time of the poll payload.
C24_AverageResponseTime ==
    LET avg == get_average_response_time(total_response_time,
                                         successful_requests)
    IN /\ successful_requests = 0 => avg = RInt(0)
       /\ successful_requests # 0 =>
              avg = Rat(total_response_time, successful_requests)
       /\ \A j \in DOMAIN polls : polls[j].average_response_time = avg

\* C24 witness: a poll payload was built after two successes and two
\* failures with a cumulative latency of 5.
C24_Witness ==
    /\ Len(polls) = 1
    /\ total_requests = 4
    /\ successful_requests = 2
    /\ total_response_time = 5
    /\ polls[1].average_response_time = <<5, 2>>

\* ------------------------------------------------ C25: statistics task

\* C25: while the client is running, the statistics task started with it is
\* alive, waiting for its next stats-interval to end; it has not terminated.
C25_StatsTaskAlive == running => stats_task = "sleeping"

\* ------------------------------------------------ C26: one request in flight

\* C26: current_load is 0 or 1 in every reachable state; it is 0 whenever
\* update_poll_interval is about to run or a poll payload is about to be
\* built, and 0 is the load every poll payload carries.
C26_OneRequestInFlight ==
    /\ current_load \in {0, 1}
    /\ pc \in {"update_interval", "poll_for_requests"} => current_load = 0
    /\ \A j \in DOMAIN polls : polls[j].current_load = 0

\* C26 witness: a request holds the load while the loop waits for it, and
\* the poll that assigned it was the second one of the loop, built at load 0
\* after an earlier request had ended.
C26_Witness ==
    /\ current_load = 1
    /\ pc = "chunk_sleep"
    /\ Len(invocations) = 2
    /\ invocations[1].released = 1
    /\ Len(polls) = 2
    /\ iterations = 2

\* ------------------------------------------------ C27: accounting

\* number of calls of process_request whose outcome is o
OutcomeCount(o) ==
    Cardinality({k \in DOMAIN invocations : invocations[k].outcome = o})

\* no call of process_request was ended by a cancellation of the task
NoneCancelled == \A k \in DOMAIN invocations : ~invocations[k].cancelled

\* C27: in every reachable state successful_requests is the number of
\* requests that ended in Completion and total_requests is
\* successful_requests plus the number of requests that ended in Failure
\* plus the number of requests started and not yet counted as either; when
\* current_load is 0 (and no request was cut short by a cancellation of the
\* task) none is uncounted, so total_requests is the number of requests that
\* reached a terminal outcome.
C27_Accounting ==
    /\ successful_requests = OutcomeCount("succeeded")
    /\ total_requests =
           successful_requests + OutcomeCount("raised")
                               + OutcomeCount("processing")
    /\ (current_load = 0 /\ NoneCancelled) =>
           /\ OutcomeCount("processing") = 0
           /\ total_requests =
                  OutcomeCount("succeeded") + OutcomeCount("raised")

\* C27 witness: one request succeeded, one failed, both released their load.
C27_Witness ==
    /\ current_load = 0
    /\ pc = "loop_top"
    /\ total_requests = 2
    /\ successful_requests = 1
    /\ OutcomeCount("succeeded") = 1
    /\ OutcomeCount("raised") = 1
    /\ NoneCancelled

\* ------------------------------------------------ C28: failed completion

\* the completion report of the running request has just failed
CompletionFailed ==
    /\ pc = "finally"
    /\ last_report_status \in FailedStatuses
    /\ reports # <<>>
    /\ reports[Len(reports)].type = "complete"

\* C28: when the completion report of a request fails (an exception or a
\* status other than 200) the worker goes on to the finally clause: the
\* request stays counted as successful, no error report is issued for it,
\* and the next step releases its load.
C28_FailedCompletion ==
    [][LET k == Len(invocations)
           e == invocations[k]
       IN /\ (pc = "complete_post" /\ last_report_status' \in FailedStatuses) =>
                /\ pc' = "finally"
                /\ reports' = reports
                /\ invocations' = invocations
          /\ CompletionFailed =>
                /\ e.outcome = "succeeded"
                /\ successful_requests = e.successful0 + 1
                /\ total_requests = e.total0 + 1
                /\ CountOf(k, "error") = 0
                /\ pc' # pc =>
                      /\ current_load' = e.load0
                      /\ invocations'[k].released = 1
                      /\ invocations'[k].outcome = "succeeded"
                      /\ successful_requests' = successful_requests
                      /\ reports' = reports]_vars

\* C28 witness: the dispatcher answered the completion report of a request
\* with a status other than 200.
C28_Witness ==
    /\ CompletionFailed
    /\ last_report_status = "non200"
    /\ reports[Len(reports)].posted
    /\ successful_requests = 1
    /\ current_load = 1

\* ------------------------------------------------ C29: requests end

\* the k-th request has issued its terminal report
TerminalReported(k) == CountOf(k, "complete") + CountOf(k, "error") = 1

\* C29: every request that has begun processing comes to release its load:
\* from a state with current_load > 0 the load returns to 0, and by then the
\* request has issued its terminal report, unless the task was cancelled
\* while it was processing.
C29_LoadReturnsToZero ==
    \A k \in 1..MaxIterations :
        (current_load > 0 /\ Len(invocations) = k)
        ~> (/\ current_load = 0
            /\ Len(invocations) >= k
            /\ invocations[k].released = 1
            /\ invocations[k].cancelled \/ TerminalReported(k))

\* C29 witness: stop() came while a request was being processed; the
\* request went on to its error report and released its load.
C29_Witness ==
    /\ stop_requested
    /\ pc = "sleep"
    /\ current_load = 0
    /\ Len(invocations) = 1
    /\ invocations[1].released = 1
    /\ ~invocations[1].cancelled
    /\ invocations[1].outcome = "raised"
    /\ TerminalReported(1)

\* ------------------------------------------------ C30: interval and reply

\* C30: the reply to a poll changes the interval only when it is a 200
\* reply without a request: such a reply without poll_interval sets the
\* interval to the base interval of 5 s, while after an assigned request,
\* a status other than 200 or a transport exception the following sleep
\* lasts the interval update_poll_interval computed in this iteration.
C30_IntervalFrame ==
    pc = "sleep" =>
        /\ sleep_arg = current_poll_interval
        /\ (last_poll.outcome = "idle"
                /\ last_poll.poll_interval = NoRecommendation) =>
               current_poll_interval = RInt(base_poll_interval)
        /\ last_poll.outcome \in {"assigned", "non200", "exception"} =>
               current_poll_interval = local_interval
        /\ current_poll_interval # local_interval =>
               last_poll.outcome = "idle"

\* C30 witness: update_poll_interval had computed 4 s and the reply to the
\* poll was idle without poll_interval: the loop sleeps 5 s.
C30_Witness ==
    /\ pc = "sleep"
    /\ last_poll = PollOutcome("idle", NoRecommendation)
    /\ local_interval = <<4, 1>>
    /\ sleep_arg = RInt(base_poll_interval)

====
